---- MODULE Spec2Model ----
(***************************************************************************)
(* CAT/filter_transmap.py: transMap filtering.                             *)
(*   calculate_synteny_score   composite score of one alignment            *)
(*   fit_distributions         per-biotype identity cutoff and labels      *)
(*   resolve_paralogs          one surviving alignment per transcript      *)
(*   resolve_split_genes       one location cluster per gene               *)
(*                                                                         *)
(* Numbers.  Scores are floats in the source.  Here a score is the exact   *)
(* rational value times ScoreScale (0.2 = 12/60, 0.3 = 18/60,              *)
(* 0.5/6 = 5/60), so equality and order of scores are those of exact       *)
(* arithmetic; float rounding is not represented.  Identities and          *)
(* coverages are whole percents, so two rows of the model either have the  *)
(* same inputs (and the same float score) or scores at least 0.1 apart.    *)
(*                                                                         *)
(* Identifiers.  A TranscriptId is a number t; the AlignmentIds of t are   *)
(* AlnId(t, k), k = 1, 2, ... (the source's "<TranscriptId>-<k>"), so the  *)
(* two identifier spaces are disjoint.                                     *)
(***************************************************************************)
EXTENDS Integers, Sequences, FiniteSets, Bags, TLC

\* ---- bounds of the model
MaxAln == 4         \* rows of the alignment-evaluation table (TranscriptIds 1..MaxAln)
MaxBiotype == 2     \* TranscriptBiotypes 1..MaxBiotype
MaxSplitTx == 3     \* rows of the paralog-resolved table given to resolve_split_genes
MaxGene == 2        \* GeneIds 1..MaxGene

\* ---- program constants
ScoreScale == 60    \* common denominator of the weights 0.2, 0.3 and 0.5/6
MaxScore == 100     \* upper end of the range asserted by calculate_synteny_score
MaxSynteny == 6     \* divisor of Synteny in calculate_synteny_score

VARIABLES
  pc,                       \* position in the run
  \* calculate_synteny_score called on one row
  s, score,
  \* fit_distributions
  aln_eval_df, ref_df, fit_todo, r, identity_cutoffs,
  \* resolve_paralogs
  updated_aln_eval_df, par_todo, paralog_status, paralog_metrics, merged,
  \* resolve_split_genes
  paralog_filtered_df, tx_dict, remove_split_genes, split_todo, tx_id,
  alignment_ids_to_remove, split_status, split_gene_metrics,
  cluster_ids,              \* the loop's cluster_ids, kept for every split gene
  filtered_df

scoreVars == <<s, score>>
fitVars == <<aln_eval_df, ref_df, fit_todo, r, identity_cutoffs>>
parVars == <<updated_aln_eval_df, par_todo, paralog_status, paralog_metrics, merged>>
splitVars == <<paralog_filtered_df, tx_dict, remove_split_genes, split_todo, tx_id,
               alignment_ids_to_remove, split_status, split_gene_metrics, cluster_ids,
               filtered_df>>
vars == <<pc, scoreVars, fitVars, parVars, splitVars>>

\* ---- helpers
AlnId(t, k) == t * 10 + k

Min(S) == CHOOSE x \in S : \A y \in S : x <= y

Max(S) == CHOOSE x \in S : \A y \in S : x >= y

\* ---- the parts of the state a run does not use
ScoreIdle == s = [TransMapCoverage |-> 0, TransMapIdentity |-> 0, Synteny |-> 0] /\ score = 0

FitIdle ==
  /\ aln_eval_df = {} /\ ref_df = {} /\ fit_todo = {} /\ r = {}
  /\ identity_cutoffs = <<>>

ParIdle ==
  /\ updated_aln_eval_df = {} /\ par_todo = {} /\ paralog_status = {}
  /\ paralog_metrics = <<>> /\ merged = {}

SplitIdle ==
  /\ paralog_filtered_df = {} /\ tx_dict = <<>> /\ remove_split_genes = FALSE
  /\ split_todo = {} /\ tx_id = 0 /\ alignment_ids_to_remove = {}
  /\ split_status = <<>> /\ split_gene_metrics = <<>> /\ cluster_ids = <<>>
  /\ filtered_df = EmptyBag

(***************************************************************************)
(* calculate_synteny_score                                                 *)
(***************************************************************************)
\* r = 0.2 * coverage + 0.3 * identity + 0.5 * (1.0 * synteny / 6), times ScoreScale
calculate_synteny_score_sign(row) ==
  12 * row.TransMapCoverage - 18 * row.TransMapIdentity + 5 * row.Synteny

calculate_synteny_score(row) ==
  12 * row.TransMapCoverage + 18 * row.TransMapIdentity + 5 * row.Synteny

\* assert 0 <= r <= 100
ScoreAssertion(v) == 0 <= v /\ v <= MaxScore * ScoreScale

\* the documented ranges of the inputs
InRange(row) ==
  /\ row.TransMapCoverage \in 0..100
  /\ row.TransMapIdentity \in 0..100
  /\ row.Synteny \in 0..MaxSynteny

ScoreCoverages == {0, 50, 100, 600}
ScoreIdentities == {-50, 0, 50, 100}

InitScore ==
  /\ pc = "score"
  /\ s \in [TransMapCoverage : ScoreCoverages, TransMapIdentity : ScoreIdentities,
            Synteny : 0..MaxSynteny]
  /\ score = 0
  /\ FitIdle /\ ParIdle /\ SplitIdle

ScoreReturn ==
  /\ pc = "score"
  /\ ScoreAssertion(calculate_synteny_score(s))
  /\ score' = calculate_synteny_score(s)
  /\ pc' = "scored"
  /\ UNCHANGED <<s, fitVars, parVars, splitVars>>

ScoreAssertionError ==
  /\ pc = "score"
  /\ ~ScoreAssertion(calculate_synteny_score(s))
  /\ pc' = "aborted"
  /\ UNCHANGED <<scoreVars, fitVars, parVars, splitVars>>

NextScore == ScoreReturn \/ ScoreAssertionError

SpecScore == InitScore /\ [][NextScore]_vars

(***************************************************************************)
(* The input tables (filter_transmap, lines 33-34)                         *)
(***************************************************************************)
FitCoverages == {100}
FitIdentities == {98, 99, 100}
FitSyntenies == {0, 6}

Profiles ==
  [TransMapCoverage : FitCoverages, TransMapIdentity : FitIdentities,
   Synteny : FitSyntenies]

ProfileKey(p) == p.TransMapIdentity * 10000 + p.TransMapCoverage * 10 + p.Synteny

RECURSIVE Total(_, _)
Total(c, n) == IF n = 0 THEN 0 ELSE c[n] + Total(c, n - 1)

\* how many alignments each transcript has (transcripts are interchangeable, so the
\* counts are listed in non-increasing order)
Counts ==
  {c \in [1..MaxAln -> 0..MaxAln] :
     /\ \A t \in 1..(MaxAln - 1) : c[t] >= c[t + 1]
     /\ Total(c, MaxAln) \in 1..MaxAln}

Slots(c) == {tk \in (1..MaxAln) \X (1..MaxAln) : tk[2] <= c[tk[1]]}

\* biotype of each transcript (biotypes are interchangeable: the first transcript has
\* biotype 1; a transcript without alignments has no row that reaches the fit)
BiotypeMaps(c) ==
  {bio \in [1..MaxAln -> 1..MaxBiotype] :
     /\ bio[1] = 1
     /\ \A t \in 1..MaxAln : c[t] = 0 => bio[t] = 1}

\* the alignments of one transcript are interchangeable, and so are transcripts with
\* the same number of alignments: both are listed by non-decreasing key
Canonical(c, bio, f) ==
  /\ \A tk \in Slots(c) :
       tk[2] < c[tk[1]] => ProfileKey(f[tk]) <= ProfileKey(f[<<tk[1], tk[2] + 1>>])
  /\ \A t \in 1..(MaxAln - 1) :
       (c[t] = c[t + 1] /\ c[t] > 0) =>
          bio[t] * 1000000 + ProfileKey(f[<<t, 1>>])
            <= bio[t + 1] * 1000000 + ProfileKey(f[<<t + 1, 1>>])

\* alignment-evaluation table: Paralogy is the number of alignments of the transcript
AlnEvalTable(c, f) ==
  {[AlignmentId |-> AlnId(tk[1], tk[2]), TranscriptId |-> tk[1],
    TransMapIdentity |-> f[tk].TransMapIdentity,
    TransMapCoverage |-> f[tk].TransMapCoverage,
    Synteny |-> f[tk].Synteny,
    Paralogy |-> c[tk[1]]] : tk \in Slots(c)}

\* reference annotation: one row per transcript
RefTable(c, bio) ==
  {[TranscriptId |-> t, GeneId |-> t, TranscriptBiotype |-> bio[t]] :
     t \in {u \in 1..MaxAln : c[u] > 0}}

Init ==
  /\ pc = "fit"
  /\ \E c \in Counts :
       \E bio \in BiotypeMaps(c) :
         \E f \in [Slots(c) -> Profiles] :
           /\ Canonical(c, bio, f)
           /\ aln_eval_df = AlnEvalTable(c, f)
           /\ ref_df = RefTable(c, bio)
  /\ fit_todo = {x.TranscriptBiotype : x \in ref_df}
  /\ r = {}
  /\ identity_cutoffs = <<>>
  /\ ScoreIdle /\ ParIdle /\ SplitIdle

(***************************************************************************)
(* fit_distributions                                                       *)
(***************************************************************************)
\* pd.merge(aln_eval_df, ref_df, on='TranscriptId')
biotype_df ==
  {[AlignmentId |-> a.AlignmentId, TranscriptId |-> a.TranscriptId,
    TransMapIdentity |-> a.TransMapIdentity, TransMapCoverage |-> a.TransMapCoverage,
    Synteny |-> a.Synteny, Paralogy |-> a.Paralogy,
    GeneId |-> x.GeneId, TranscriptBiotype |-> x.TranscriptBiotype] :
     <<a, x>> \in {ax \in aln_eval_df \X ref_df : ax[1].TranscriptId = ax[2].TranscriptId}}

\* a cutoff: None (absent), a number (val, in half percents), or a non-finite float
NoCutoff == [kind |-> "None", val |-> 0]
NaN == [kind |-> "nan", val |-> 0]
Num(v) == [kind |-> "num", val |-> v]

\* idents[idents != 100]
transform_data(rows) == {x \in rows : x.TransMapIdentity # 100}

(***************************************************************************)
(* 100 - exp(-(mu - sigma)), mu and sigma the maximum-likelihood mean and  *)
(* standard deviation of -ln(100 - ident) over the transformed sample.     *)
(*   Empty sample: the mean of nothing, NaN.                               *)
(*   One identity x, any number of times: sigma = 0, the cutoff is x.      *)
(*   Two identities x1 < x2, k and m times, L1 = ln(100 - x1) > L2:        *)
(*     -(mu - sigma) = L2 + (L1 - L2) * (k + sqrt(k*m)) / (k + m),         *)
(*   with exponent e = (k + sqrt(k*m)) / (k + m) and A = 100 - x1,         *)
(*   B = 100 - x2 the cutoff is 100 - B * (A/B)^e: it is x1 when k = m     *)
(*   (e = 1), lies strictly between x1 and x2 when k < m (e < 1), and      *)
(*   strictly between x1 - A*(A - B)/B and x1 when k > m (1 < e < 2).      *)
(*   More identities: no closed form; any value below the largest.         *)
(* A cutoff that is not a whole percent is represented by a half percent   *)
(* of the same gap between whole percents: every whole-percent identity    *)
(* compares to it as to the real value when x2 = x1 + 1, and the possible  *)
(* gaps are all listed otherwise.                                          *)
(***************************************************************************)
Halves(lo, hi) == {v \in (2 * lo)..(2 * hi) : v % 2 = 1}

find_cutoff(biotype_unique) ==
  LET sample == transform_data(biotype_unique)
      idents == {x.TransMapIdentity : x \in sample}
      x1 == Min(idents)
      x2 == Max(idents)
      k == Cardinality({x \in sample : x.TransMapIdentity = x1})
      m == Cardinality({x \in sample : x.TransMapIdentity = x2})
  IN  IF sample = {} THEN {NaN}
      ELSE IF Cardinality(idents) = 1 THEN {Num(2 * x1)}
      ELSE IF Cardinality(idents) = 2
           THEN IF k = m THEN {Num(2 * x1)}
                ELSE IF k < m THEN {Num(v) : v \in Halves(x1, x2)}
                ELSE LET A == 100 - x1
                         B == 100 - x2
                     IN  {Num(v) : v \in Halves(x1 - ((A * (A - B) + B - 1) \div B), x1)}
      ELSE {Num(v) : v \in Halves(0, x2)}

\* np.isnan(cutoff) or np.isinf(cutoff)
IsDegenerate(cutoff) == cutoff.kind \in {"nan", "inf"}

\* 'passing' if ident >= cutoff else 'failing'
ThresholdLabel_strict(ident, cutoff) ==
  IF 2 * ident > cutoff.val THEN "passing" ELSE "failing"

ThresholdLabel(ident, cutoff) ==
  IF 2 * ident >= cutoff.val THEN "passing" ELSE "failing"

\* the group of the loop's current iteration (groupby iterates in key order)
FitBiotype == Min(fit_todo)
FitDf == {x \in biotype_df : x.TranscriptBiotype = FitBiotype}
FitUnique == {x \in FitDf : x.Paralogy = 1}
FitNotUnique == {x \in FitDf : x.Paralogy # 1}

FitStep(labels, cutoff) ==
  /\ r' = r \cup labels
  /\ identity_cutoffs' = Append(identity_cutoffs,
                                [TranscriptBiotype |-> FitBiotype, IdentityCutoff |-> cutoff])
  /\ fit_todo' = fit_todo \ {FitBiotype}
  /\ UNCHANGED <<pc, aln_eval_df, ref_df, scoreVars, parVars, splitVars>>

AllLabelled(df, label) == {[AlignmentId |-> x.AlignmentId, TranscriptClass |-> label] : x \in df}

\* lines 86-90
FitNoParalogous ==
  /\ pc = "fit" /\ fit_todo # {}
  /\ FitNotUnique = {}
  /\ FitStep(AllLabelled(FitDf, "passing"), NoCutoff)

\* lines 91-95
FitOnlyParalogous ==
  /\ pc = "fit" /\ fit_todo # {}
  /\ FitNotUnique # {} /\ FitUnique = {}
  /\ FitStep(AllLabelled(FitDf, "failing"), NoCutoff)

\* lines 96-104, 112
FitDegenerate ==
  /\ pc = "fit" /\ fit_todo # {}
  /\ FitNotUnique # {} /\ FitUnique # {}
  /\ \E cutoff \in find_cutoff(FitUnique) :
       /\ IsDegenerate(cutoff)
       /\ FitStep(AllLabelled(FitDf, "passing"), cutoff)

\* lines 96-100, 105-112
FitThreshold ==
  /\ pc = "fit" /\ fit_todo # {}
  /\ FitNotUnique # {} /\ FitUnique # {}
  /\ \E cutoff \in find_cutoff(FitUnique) :
       /\ ~IsDegenerate(cutoff)
       /\ FitStep({[AlignmentId |-> x.AlignmentId,
                    TranscriptClass |-> ThresholdLabel(x.TransMapIdentity, cutoff)] :
                     x \in FitDf}, cutoff)

\* pd.merge(biotype_df, r_df, on='AlignmentId')
FitMerge(df, r_df) ==
  {[AlignmentId |-> x.AlignmentId, TranscriptId |-> x.TranscriptId,
    TransMapIdentity |-> x.TransMapIdentity, TransMapCoverage |-> x.TransMapCoverage,
    Synteny |-> x.Synteny, Paralogy |-> x.Paralogy,
    GeneId |-> x.GeneId, TranscriptBiotype |-> x.TranscriptBiotype,
    TranscriptClass |-> l.TranscriptClass] :
     <<x, l>> \in {xl \in df \X r_df : xl[1].AlignmentId = xl[2].AlignmentId}}

\* lines 114-119, and the hand-over to resolve_paralogs (line 44)
FitReturn ==
  /\ pc = "fit" /\ fit_todo = {}
  /\ updated_aln_eval_df' = FitMerge(biotype_df, r)
  /\ pc' = "fitted"
  /\ UNCHANGED <<fitVars, scoreVars, par_todo, paralog_status, paralog_metrics, merged,
                 splitVars>>

NextFit == FitNoParalogous \/ FitOnlyParalogous \/ FitDegenerate \/ FitThreshold \/ FitReturn

(***************************************************************************)
(* resolve_paralogs                                                        *)
(***************************************************************************)
\* s.TranscriptClass if s.ParalogStatus != 'NotConfident' else 'failing'
apply_label_confident(row) ==
  IF row.ParalogStatus = "Confident" THEN row.TranscriptClass ELSE "failing"

apply_label(row) ==
  IF row.ParalogStatus # "NotConfident" THEN row.TranscriptClass ELSE "failing"

\* updated_aln_eval_df['Score'] = updated_aln_eval_df.apply(calculate_synteny_score, axis=1)
WithScore(df) ==
  {[AlignmentId |-> x.AlignmentId, TranscriptId |-> x.TranscriptId,
    TransMapIdentity |-> x.TransMapIdentity, TransMapCoverage |-> x.TransMapCoverage,
    Synteny |-> x.Synteny, Paralogy |-> x.Paralogy,
    GeneId |-> x.GeneId, TranscriptBiotype |-> x.TranscriptBiotype,
    TranscriptClass |-> x.TranscriptClass,
    Score |-> calculate_synteny_score(x)] : x \in df}

MetricNames == {"Alignments discarded", "Model prediction", "Synteny heuristic",
                "Arbitrarily resolved"}

\* lines 136-142: score every row (each call asserts its range, which holds for every
\* row of Profiles), sort, zero the metrics
ParStart ==
  /\ pc = "fitted"
  /\ \A x \in updated_aln_eval_df : ScoreAssertion(calculate_synteny_score(x))
  /\ updated_aln_eval_df' = WithScore(updated_aln_eval_df)
  /\ paralog_status' = {}
  /\ paralog_metrics' = [b \in {x.TranscriptBiotype : x \in updated_aln_eval_df} |->
                           [m \in MetricNames |-> 0]]
  /\ par_todo' = {x.TranscriptId : x \in updated_aln_eval_df}
  /\ pc' = "resolve"
  /\ UNCHANGED <<merged, scoreVars, fitVars, splitVars>>

\* The rows that can stand first in a group after sort_values(by='Score',
\* ascending=False): the sort is not stable, so any row of the highest score.
HeadRows_ascending(df) == {x \in df : \A y \in df : x.Score <= y.Score}

HeadRows(df) == {x \in df : \A y \in df : x.Score >= y.Score}

\* df[df.Score == df.iloc[0].Score]
highest_score_df(df, head) == {x \in df : x.Score = head.Score}

ParTx == Min(par_todo)
ParDf == {x \in updated_aln_eval_df : x.TranscriptId = ParTx}
ParPassing == {x \in ParDf : x.TranscriptClass = "passing"}
ParBiotype == (CHOOSE x \in ParDf : TRUE).TranscriptBiotype

ParCount(metric) ==
  paralog_metrics' =
    [paralog_metrics EXCEPT ![ParBiotype] =
       [@ EXCEPT ![metric] = @ + 1,
                 !["Alignments discarded"] = @ + Cardinality(ParDf) - 1]]

ParAppend(aln_id, status) ==
  /\ paralog_status' = paralog_status \cup {[AlignmentId |-> aln_id, ParalogStatus |-> status]}
  /\ par_todo' = par_todo \ {ParTx}
  /\ UNCHANGED <<pc, updated_aln_eval_df, merged, scoreVars, fitVars, splitVars>>

\* lines 145-147
ParNoParalogs ==
  /\ pc = "resolve" /\ par_todo # {}
  /\ Cardinality(ParDf) = 1
  /\ \E head \in HeadRows(ParDf) : ParAppend(head.AlignmentId, "None")
  /\ UNCHANGED paralog_metrics

\* lines 150-153
ParModelPrediction ==
  /\ pc = "resolve" /\ par_todo # {}
  /\ Cardinality(ParDf) # 1
  /\ Cardinality(ParPassing) = 1
  /\ ParCount("Model prediction")
  /\ \E head \in HeadRows(ParDf) : ParAppend(head.AlignmentId, "Confident")

\* lines 155-159
ParSyntenyHeuristic ==
  /\ pc = "resolve" /\ par_todo # {}
  /\ Cardinality(ParDf) # 1
  /\ Cardinality(ParPassing) # 1
  /\ \E head \in HeadRows(ParDf) :
       /\ Cardinality(highest_score_df(ParDf, head)) = 1
       /\ ParAppend(head.AlignmentId, "Confident")
  /\ ParCount("Synteny heuristic")

\* lines 160-163
ParArbitrary ==
  /\ pc = "resolve" /\ par_todo # {}
  /\ Cardinality(ParDf) # 1
  /\ Cardinality(ParPassing) # 1
  /\ \E head \in HeadRows(ParDf) :
       /\ Cardinality(highest_score_df(ParDf, head)) # 1
       /\ ParAppend(head.AlignmentId, "NotConfident")
  /\ ParCount("Arbitrarily resolved")

ParJoin(st, x) ==
  [AlignmentId |-> x.AlignmentId, TranscriptId |-> x.TranscriptId,
   TransMapIdentity |-> x.TransMapIdentity, TransMapCoverage |-> x.TransMapCoverage,
   Synteny |-> x.Synteny, Paralogy |-> x.Paralogy,
   GeneId |-> x.GeneId, TranscriptBiotype |-> x.TranscriptBiotype,
   TranscriptClass |-> x.TranscriptClass, Score |-> x.Score,
   ParalogStatus |-> st]

\* pd.merge(status_df, updated_aln_eval_df, on='AlignmentId'): the inner join drops
\* the alignments that have no status row
ParMerge_left(status_df, df) ==
  {ParJoin(IF \E st \in status_df : st.AlignmentId = x.AlignmentId
           THEN (CHOOSE st \in status_df : st.AlignmentId = x.AlignmentId).ParalogStatus
           ELSE "None", x) : x \in df}

ParMerge(status_df, df) ==
  {ParJoin(sx[1].ParalogStatus, sx[2]) :
     sx \in {y \in status_df \X df : y[1].AlignmentId = y[2].AlignmentId}}

\* merged['TranscriptClass'] = merged.apply(apply_label, axis=1)
Relabel(df) == {[x EXCEPT !.TranscriptClass = apply_label(x)] : x \in df}

\* lines 165-175
ParReturn ==
  /\ pc = "resolve" /\ par_todo = {}
  /\ merged' = Relabel(ParMerge(paralog_status, updated_aln_eval_df))
  /\ pc' = "resolved"
  /\ UNCHANGED <<updated_aln_eval_df, par_todo, paralog_status, paralog_metrics,
                 scoreVars, fitVars, splitVars>>

NextPar ==
  \/ ParStart \/ ParNoParalogs \/ ParModelPrediction \/ ParSyntenyHeuristic
  \/ ParArbitrary \/ ParReturn

Next == NextFit \/ NextPar


Spec == Init /\ [][Next]_vars

(***************************************************************************)
(* resolve_split_genes                                                     *)
(***************************************************************************)
Chromosomes == {"chr1", "chr2"}
Intervals == {<<0, 10>>, <<10, 20>>, <<25, 30>>}
SplitCoverages == {50, 100}

\* gene of each transcript: genes are numbered in the order of their first transcript
GeneMaps(n) ==
  {g \in [1..n -> 1..MaxGene] :
     /\ g[1] = 1
     /\ \A t \in 1..(n - 1) : g[t + 1] \in {g[t], g[t] + 1}}

\* a table as resolve_paralogs returns it: one row per transcript, scored by
\* calculate_synteny_score (the columns resolve_split_genes does not read are left out)
InitSplit ==
  /\ pc = "split"
  /\ \E n \in 1..MaxSplitTx :
       \E g \in GeneMaps(n) :
         \E cov \in [1..n -> SplitCoverages] :
           \E chrom \in [1..n -> Chromosomes] :
             \E iv \in [1..n -> Intervals] :
               /\ paralog_filtered_df =
                    {[AlignmentId |-> AlnId(t, 1), TranscriptId |-> t, GeneId |-> g[t],
                      Score |-> calculate_synteny_score(
                                  [TransMapCoverage |-> cov[t], TransMapIdentity |-> 100,
                                   Synteny |-> MaxSynteny])] : t \in 1..n}
               /\ tx_dict = [a \in {AlnId(t, 1) : t \in 1..n} |->
                               LET t == CHOOSE u \in 1..n : AlnId(u, 1) = a
                               IN  [name |-> a, chromosome |-> chrom[t],
                                    start |-> iv[t][1], stop |-> iv[t][2]]]
               /\ split_todo = {g[t] : t \in 1..n}
  /\ remove_split_genes \in BOOLEAN
  /\ tx_id = 0
  /\ alignment_ids_to_remove = {}
  /\ split_status = <<>>
  /\ split_gene_metrics = [m \in {"Number of contig split genes",
                                  "Number of intra-contig split genes"} |-> 0]
  /\ cluster_ids = <<>>
  /\ filtered_df = EmptyBag
  /\ ScoreIdle /\ FitIdle /\ ParIdle

\* the intervals of a set in sorted order, lowest first
FirstInterval(S) ==
  CHOOSE i \in S : \A j \in S : i.start < j.start \/ (i.start = j.start /\ i.stop <= j.stop)

\* tools.intervals.gap_merge_intervals(intervals, gap): sorted intervals, each merged
\* into the previous one when their separation is at most gap
RECURSIVE gap_merge_intervals(_, _, _)
gap_merge_intervals(intervals, gap, acc) ==
  IF intervals = {} THEN acc
  ELSE LET i == FirstInterval(intervals)
           rest == intervals \ {i}
       IN  IF acc # <<>> /\ i.start - acc[Len(acc)].stop <= gap
           THEN gap_merge_intervals(rest, gap,
                  [acc EXCEPT ![Len(acc)] =
                     [@ EXCEPT !.stop = IF i.stop > @ THEN i.stop ELSE @]])
           ELSE gap_merge_intervals(rest, gap, Append(acc, i))

\* ChromosomeInterval.overlap: same chromosome and a shared position
overlap(a, b) == a.chromosome = b.chromosome /\ a.start < b.stop /\ b.start < a.stop

interval(tx_obj) ==
  [chromosome |-> tx_obj.chromosome, start |-> tx_obj.start, stop |-> tx_obj.stop]

\* the orders in which a dict can hand out its chromosome keys
ChromOrders(chroms) ==
  {q \in [1..Cardinality(chroms) -> chroms] : \A i, j \in DOMAIN q : q[i] = q[j] => i = j}

\* lines 201-204: the merged intervals of every chromosome, in the dict's order
RECURSIVE merged_intervals(_, _, _)
merged_intervals(tx_objs, order, k) ==
  IF k > Len(order) THEN <<>>
  ELSE gap_merge_intervals({interval(o) : o \in {x \in tx_objs : x.chromosome = order[k]}},
                           0, <<>>)
       \o merged_intervals(tx_objs, order, k + 1)

\* lines 192-213: cluster i holds the transcripts whose first overlapping merged
\* interval is the i-th
cluster_gene(tx_objs, order) ==
  LET mi == merged_intervals(tx_objs, order, 1)
      first(o) == Min({i \in 1..Len(mi) : overlap(mi[i], interval(o))})
  IN  [i \in {first(o) : o \in tx_objs} |-> {o.name : o \in {x \in tx_objs : first(x) = i}}]

RECURSIVE SumScore(_)
SumScore(rows) ==
  IF rows = {} THEN 0
  ELSE LET x == CHOOSE y \in rows : TRUE IN x.Score + SumScore(rows \ {x})

\* rec[rec.AlignmentId.isin(ids)]
RowsOf(rec, ids) == {x \in rec : x.AlignmentId \in ids}

\* mean Score of cluster a >= mean Score of cluster b
MeanGE(rec, a, b) ==
  SumScore(RowsOf(rec, a)) * Cardinality(RowsOf(rec, b))
    >= SumScore(RowsOf(rec, b)) * Cardinality(RowsOf(rec, a))

\* lines 215-224: the first cluster, in key order, of the highest mean Score
find_best_cluster(clusters, rec) ==
  Min({i \in DOMAIN clusters : \A j \in DOMAIN clusters : MeanGE(rec, clusters[i], clusters[j])})

\* lines 226-230
is_split_chrom_gene(tx_objs) == Cardinality({o.chromosome : o \in tx_objs}) # 1

ClusterChrom(tx_objs, ids) == (CHOOSE o \in tx_objs : o.name \in ids).chromosome

\* lines 232-242: two clusters on one chromosome
is_split_same_chrom_gene(tx_objs, clusters) ==
  \E i, j \in DOMAIN clusters :
    i # j /\ ClusterChrom(tx_objs, clusters[i]) = ClusterChrom(tx_objs, clusters[j])

RECURSIVE SortedSeq(_)
SortedSeq(S) == IF S = {} THEN <<>> ELSE <<Min(S)>> \o SortedSeq(S \ {Min(S)})

\* the group of the loop's current iteration
SplitGene == Min(split_todo)
SplitRec == {x \in paralog_filtered_df : x.GeneId = SplitGene}
SplitTxObjs == {tx_dict[x.AlignmentId] : x \in SplitRec}
SplitTxIds == SortedSeq({x.TranscriptId : x \in SplitRec})

NoContigs == {}

StatusRow(tx, contigs, split) ==
  [TranscriptId |-> tx, GeneAlternateContigs |-> contigs, SplitGene |-> split]

\* lines 251-253.  The list comprehension leaves its loop variable tx_id bound to the
\* last TranscriptId of the gene (Python 2 list comprehensions share the enclosing
\* scope).
SplitSingleCluster ==
  /\ pc = "split" /\ split_todo # {}
  /\ \E order \in ChromOrders({o.chromosome : o \in SplitTxObjs}) :
       Cardinality(DOMAIN cluster_gene(SplitTxObjs, order)) = 1
  /\ split_status' = split_status \o
                       [k \in 1..Len(SplitTxIds) |-> StatusRow(SplitTxIds[k], NoContigs, FALSE)]
  /\ tx_id' = SplitTxIds[Len(SplitTxIds)]
  /\ split_todo' = split_todo \ {SplitGene}
  /\ UNCHANGED <<pc, paralog_filtered_df, tx_dict, remove_split_genes,
                 alignment_ids_to_remove, split_gene_metrics, cluster_ids, filtered_df,
                 scoreVars, fitVars, parVars>>

\* lines 254-255: the winning cluster holds AlignmentIds (tx_obj.name); the set
\* comprehension tests each TranscriptId of the gene against it
SplitBest(clusters) ==
  /\ Cardinality(DOMAIN clusters) # 1
  /\ cluster_ids' = (SplitGene :> clusters[find_best_cluster(clusters, SplitRec)]) @@ cluster_ids
  /\ alignment_ids_to_remove' =
       alignment_ids_to_remove \cup
         {x.TranscriptId : x \in {y \in SplitRec : y.TranscriptId \notin cluster_ids'[SplitGene]}}

\* lines 256-265: one status row, for whatever tx_id is bound to
SplitContig ==
  /\ pc = "split" /\ split_todo # {}
  /\ tx_id # 0
  /\ \E order \in ChromOrders({o.chromosome : o \in SplitTxObjs}) :
       LET clusters == cluster_gene(SplitTxObjs, order) IN
         /\ SplitBest(clusters)
         /\ is_split_chrom_gene(SplitTxObjs)
         /\ LET location_split == is_split_same_chrom_gene(SplitTxObjs, clusters)
                chrom == ClusterChrom(SplitTxObjs, cluster_ids'[SplitGene])
                other_chroms == {o.chromosome : o \in {x \in SplitTxObjs : x.chromosome # chrom}}
            IN  /\ split_gene_metrics' =
                     [split_gene_metrics EXCEPT
                        !["Number of contig split genes"] = @ + 1,
                        !["Number of intra-contig split genes"] =
                           IF location_split THEN @ + 1 ELSE @]
                /\ split_status' = Append(split_status,
                                          StatusRow(tx_id, other_chroms, location_split))
  /\ split_todo' = split_todo \ {SplitGene}
  /\ UNCHANGED <<pc, paralog_filtered_df, tx_dict, remove_split_genes, tx_id, filtered_df,
                 scoreVars, fitVars, parVars>>

\* lines 266-268
SplitIntraContig ==
  /\ pc = "split" /\ split_todo # {}
  /\ tx_id # 0
  /\ \E order \in ChromOrders({o.chromosome : o \in SplitTxObjs}) :
       LET clusters == cluster_gene(SplitTxObjs, order) IN
         /\ SplitBest(clusters)
         /\ ~is_split_chrom_gene(SplitTxObjs)
  /\ split_gene_metrics' =
       [split_gene_metrics EXCEPT !["Number of intra-contig split genes"] = @ + 1]
  /\ split_status' = Append(split_status, StatusRow(tx_id, NoContigs, TRUE))
  /\ split_todo' = split_todo \ {SplitGene}
  /\ UNCHANGED <<pc, paralog_filtered_df, tx_dict, remove_split_genes, tx_id, filtered_df,
                 scoreVars, fitVars, parVars>>

\* lines 265, 268 with no single-cluster gene before: tx_id is unbound, NameError
SplitNameError ==
  /\ pc = "split" /\ split_todo # {}
  /\ tx_id = 0
  /\ \E order \in ChromOrders({o.chromosome : o \in SplitTxObjs}) :
       SplitBest(cluster_gene(SplitTxObjs, order))
  /\ pc' = "error"
  /\ UNCHANGED <<paralog_filtered_df, tx_dict, remove_split_genes, split_todo, tx_id,
                 split_status, split_gene_metrics, filtered_df,
                 scoreVars, fitVars, parVars>>

SplitJoin(x, st) ==
  [AlignmentId |-> x.AlignmentId, TranscriptId |-> x.TranscriptId, GeneId |-> x.GeneId,
   Score |-> x.Score, GeneAlternateContigs |-> st.GeneAlternateContigs,
   SplitGene |-> st.SplitGene]

\* pd.merge(paralog_filtered_df, split_df, on='TranscriptId'): one row for every pair
\* of a table row and a status row of the same TranscriptId
SplitMerge(df, split_df) ==
  LET pairs == {xi \in df \X (1..Len(split_df)) :
                  xi[1].TranscriptId = split_df[xi[2]].TranscriptId}
      rows == {SplitJoin(xi[1], split_df[xi[2]]) : xi \in pairs}
  IN  [row \in rows |->
         Cardinality({xi \in pairs : SplitJoin(xi[1], split_df[xi[2]]) = row})]

\* merged_df[~merged_df['AlignmentId'].isin(alignment_ids_to_remove)]
NotIn(bag, ids) ==
  [row \in {x \in DOMAIN bag : x.AlignmentId \notin ids} |-> bag[row]]

\* lines 270-284
SplitReturn ==
  /\ pc = "split" /\ split_todo = {}
  /\ IF remove_split_genes
     THEN /\ split_gene_metrics' =
               ("Number of transcripts removed" :> Cardinality(alignment_ids_to_remove))
                 @@ split_gene_metrics
          /\ filtered_df' = NotIn(SplitMerge(paralog_filtered_df, split_status),
                                  alignment_ids_to_remove)
     ELSE /\ filtered_df' = SplitMerge(paralog_filtered_df, split_status)
          /\ UNCHANGED split_gene_metrics
  /\ pc' = "split_done"
  /\ UNCHANGED <<paralog_filtered_df, tx_dict, remove_split_genes, split_todo, tx_id,
                 alignment_ids_to_remove, split_status, cluster_ids,
                 scoreVars, fitVars, parVars>>

NextSplit ==
  \/ SplitSingleCluster \/ SplitContig \/ SplitIntraContig \/ SplitNameError
  \/ SplitReturn

SpecSplit == InitSplit /\ [][NextSplit]_vars

(***************************************************************************)
(* Properties of calculate_synteny_score (checked under SpecScore)         *)
(***************************************************************************)
\* C7: on a row whose coverage and identity are in 0..100 and whose synteny is in 0..6
\* the score is in [0, 100] and the assertion never fails; the run aborts exactly
\* when the computed value is outside [0, 100].
ScoreInRange ==
  /\ InRange(s) => pc # "aborted"
  /\ pc = "scored" =>
       /\ score = 12 * s.TransMapCoverage + 18 * s.TransMapIdentity + 5 * s.Synteny
       /\ 0 <= score /\ score <= 100 * ScoreScale
  /\ pc = "aborted" =>
       \/ 12 * s.TransMapCoverage + 18 * s.TransMapIdentity + 5 * s.Synteny < 0
       \/ 12 * s.TransMapCoverage + 18 * s.TransMapIdentity + 5 * s.Synteny > 100 * ScoreScale

\* a scored row at the top of every input range
ScoreInRangeWitness ==
  /\ pc = "scored"
  /\ s.TransMapCoverage = 100 /\ s.TransMapIdentity = 100 /\ s.Synteny = MaxSynteny

\* C9: the synteny term contributes up to 50 points: a row with Synteny 6 scores 50
\* more than the same row with Synteny 0, and coverage 100, identity 100, Synteny 6
\* scores 100.
SyntenyTermFifty ==
  (pc = "scored" /\ s.Synteny = 6) =>
     /\ score - calculate_synteny_score([s EXCEPT !.Synteny = 0]) = 50 * ScoreScale
     /\ (s.TransMapCoverage = 100 /\ s.TransMapIdentity = 100) => score = 100 * ScoreScale

(***************************************************************************)
(* Properties of fit_distributions (checked under Spec)                    *)
(***************************************************************************)
Biotypes == {x.TranscriptBiotype : x \in biotype_df}

CutoffRows(b) == {i \in 1..Len(identity_cutoffs) : identity_cutoffs[i].TranscriptBiotype = b}

CutoffOf(b) == identity_cutoffs[CHOOSE i \in CutoffRows(b) : TRUE].IdentityCutoff

ClassRows(x) == {y \in updated_aln_eval_df : y.AlignmentId = x.AlignmentId}

\* the label the four cases give row x, read off the input table and the recorded cutoff
CaseHolds(x, label) ==
  LET df == {y \in biotype_df : y.TranscriptBiotype = x.TranscriptBiotype}
      unique == {y \in df : y.Paralogy = 1}
      not_unique == {y \in df : y.Paralogy # 1}
      cutoff == CutoffOf(x.TranscriptBiotype)
  IN  IF not_unique = {} THEN label = "passing" /\ cutoff.kind = "None"
      ELSE IF unique = {} THEN label = "failing" /\ cutoff.kind = "None"
      ELSE /\ cutoff \in find_cutoff(unique)
           /\ IF cutoff.kind \in {"nan", "inf"} THEN label = "passing"
              ELSE /\ cutoff.kind = "num"
                   /\ label = "passing" <=> 2 * x.TransMapIdentity >= cutoff.val

\* C6: every alignment gets exactly one label, the one of the first case that applies
\* to its biotype (no non-unique rows: passing, no cutoff; no unique rows: failing, no
\* cutoff; non-finite cutoff: passing, cutoff recorded; else passing iff identity >=
\* cutoff), and the cutoff table has exactly one row per biotype.
FitCases ==
  pc \in {"fitted", "resolve", "resolved"} =>
    /\ Len(identity_cutoffs) = Cardinality(Biotypes)
    /\ \A b \in Biotypes : Cardinality(CutoffRows(b)) = 1
    /\ \A x \in biotype_df :
         /\ Cardinality(ClassRows(x)) = 1
         /\ \A y \in ClassRows(x) : CaseHolds(x, y.TranscriptClass)

\* a biotype labelled by the threshold, with a failing row and a passing row whose
\* identity equals the cutoff
FitCasesWitness ==
  /\ pc = "fitted"
  /\ \E b \in Biotypes :
       /\ CutoffRows(b) # {}
       /\ CutoffOf(b).kind = "num"
       /\ \E x, y \in updated_aln_eval_df :
            /\ x.TranscriptBiotype = b /\ y.TranscriptBiotype = b
            /\ x.TranscriptClass = "failing"
            /\ y.TranscriptClass = "passing" /\ 2 * y.TransMapIdentity = CutoffOf(b).val

(***************************************************************************)
(* Properties of resolve_paralogs (checked under Spec)                     *)
(***************************************************************************)
Group(t) == {x \in updated_aln_eval_df : x.TranscriptId = t}

Survivors(t) == {m \in merged : m.TranscriptId = t}

TxIds == {x.TranscriptId : x \in updated_aln_eval_df}

Passing(t) == {x \in Group(t) : x.TranscriptClass = "passing"}

TopScore(t) == {x \in Group(t) : \A y \in Group(t) : x.Score >= y.Score}

\* C1: a group of more than one alignment with exactly one passing alignment keeps
\* that passing alignment, with ParalogStatus Confident, and nothing else.
PassingSurvives ==
  pc = "resolved" =>
    \A t \in TxIds :
      (Cardinality(Group(t)) > 1 /\ Cardinality(Passing(t)) = 1) =>
         Survivors(t) = {ParJoin("Confident", x) : x \in Passing(t)}

\* C4: a group of more than one alignment with zero or several passing alignments
\* keeps one alignment of the highest score; it is Confident iff it alone has that
\* score, otherwise NotConfident and failing; a survivor that is not NotConfident
\* keeps its fitted class.
ScoreHeuristic ==
  pc = "resolved" =>
    /\ \A t \in TxIds :
         (Cardinality(Group(t)) > 1 /\ Cardinality(Passing(t)) # 1) =>
            /\ Cardinality(Survivors(t)) = 1
            /\ \A m \in Survivors(t) :
                 /\ \E x \in TopScore(t) : x.AlignmentId = m.AlignmentId
                 /\ m.ParalogStatus = "Confident" <=> Cardinality(TopScore(t)) = 1
                 /\ Cardinality(TopScore(t)) # 1 =>
                      m.ParalogStatus = "NotConfident" /\ m.TranscriptClass = "failing"
    /\ \A m \in merged :
         m.ParalogStatus # "NotConfident" =>
            \E x \in updated_aln_eval_df :
               x.AlignmentId = m.AlignmentId /\ x.TranscriptClass = m.TranscriptClass

\* two passing alignments tied at the highest score: the survivor is NotConfident and
\* forced to failing
ScoreHeuristicWitness ==
  /\ pc = "resolved"
  /\ \E t \in TxIds :
       /\ Cardinality(Passing(t)) = 2
       /\ Cardinality(TopScore(t)) = 2
       /\ \E m \in Survivors(t) : m.ParalogStatus = "NotConfident" /\ m.TranscriptClass = "failing"

\* C5: the returned table has exactly one row per TranscriptId of the input, and the
\* row is an input row of that transcript.
OneSurvivor ==
  pc = "resolved" =>
    /\ \A t \in {a.TranscriptId : a \in aln_eval_df} : Cardinality(Survivors(t)) = 1
    /\ \A m \in merged :
         \E a \in aln_eval_df :
            /\ a.AlignmentId = m.AlignmentId /\ a.TranscriptId = m.TranscriptId
            /\ a.TransMapIdentity = m.TransMapIdentity
            /\ a.TransMapCoverage = m.TransMapCoverage
            /\ a.Synteny = m.Synteny /\ a.Paralogy = m.Paralogy

\* three transcripts, one of them with two alignments, one row each after resolution
OneSurvivorWitness ==
  /\ pc = "resolved"
  /\ Cardinality(TxIds) = 3
  /\ \E t \in TxIds : Cardinality(Group(t)) = 2
  /\ Cardinality(merged) = 3

\* C8: on a table with one alignment per transcript every row is returned with its
\* fields and class unchanged and ParalogStatus none, and every counter stays 0.
ResolvedTableNoOp ==
  (pc = "resolved" /\ \A t \in TxIds : Cardinality(Group(t)) = 1) =>
     /\ merged = {ParJoin("None", x) : x \in updated_aln_eval_df}
     /\ \A b \in DOMAIN paralog_metrics : \A m \in MetricNames : paralog_metrics[b][m] = 0

\* a resolved table of three or more transcripts of two biotypes, one alignment each
ResolvedTableNoOpWitness ==
  /\ pc = "resolved"
  /\ Cardinality(TxIds) >= 3
  /\ \A t \in TxIds : Cardinality(Group(t)) = 1
  /\ Cardinality(DOMAIN paralog_metrics) = 2

(***************************************************************************)
(* Properties of resolve_split_genes (checked under SpecSplit)             *)
(***************************************************************************)
GeneIds == {x.GeneId : x \in paralog_filtered_df}

GeneRows(g) == {x \in paralog_filtered_df : x.GeneId = g}

GeneObjs(g) == {tx_dict[x.AlignmentId] : x \in GeneRows(g)}

\* the location clusters of a gene, as sets of AlignmentIds
LocationClusters(g) ==
  LET c == cluster_gene(GeneObjs(g),
                        CHOOSE q \in ChromOrders({o.chromosome : o \in GeneObjs(g)}) : TRUE)
  IN  {c[i] : i \in DOMAIN c}

HighestMean(g) ==
  {c \in LocationClusters(g) : \A d \in LocationClusters(g) : MeanGE(GeneRows(g), c, d)}

\* the AlignmentIds of gene g in the returned table
OutIds(g) == {x.AlignmentId : x \in {y \in DOMAIN filtered_df : y.GeneId = g}}

\* how many rows of the returned table have AlignmentId a
RECURSIVE Copies(_, _)
Copies(rows, a) ==
  IF rows = {} THEN 0
  ELSE LET x == CHOOSE y \in rows : TRUE
       IN  (IF x.AlignmentId = a THEN filtered_df[x] ELSE 0) + Copies(rows \ {x}, a)

\* C2: with remove_split_genes the returned table holds every transcript of a gene
\* with one location cluster and, of a gene with several, exactly the transcripts of
\* a cluster of the highest mean Score.
KeepsWinningCluster ==
  (pc = "split_done" /\ remove_split_genes) =>
     \A g \in GeneIds :
       IF Cardinality(LocationClusters(g)) = 1
       THEN OutIds(g) = {x.AlignmentId : x \in GeneRows(g)}
       ELSE OutIds(g) \in HighestMean(g)

\* C3: every TranscriptId gets exactly one status row, describing its own gene, and
\* every transcript of the winning cluster of a contig-split gene is returned exactly
\* once, with the gene's other chromosomes as GeneAlternateContigs.
SplitStatusPerTranscript ==
  pc = "split_done" =>
    \A g \in GeneIds :
      LET chroms == {o.chromosome : o \in GeneObjs(g)}
          multi == Cardinality(LocationClusters(g)) # 1
          contig == multi /\ Cardinality(chroms) # 1
          location == multi /\ Cardinality(LocationClusters(g)) # Cardinality(chroms)
          others == IF contig
                    THEN chroms \ {ClusterChrom(GeneObjs(g), cluster_ids[g])}
                    ELSE NoContigs
      IN  /\ \A x \in GeneRows(g) :
               LET rows == {i \in 1..Len(split_status) :
                              split_status[i].TranscriptId = x.TranscriptId}
               IN  /\ Cardinality(rows) = 1
                   /\ \A i \in rows :
                        split_status[i] = StatusRow(x.TranscriptId, others, location)
          /\ contig =>
               \A a \in cluster_ids[g] :
                 /\ Copies(DOMAIN filtered_df, a) = 1
                 /\ \A row \in DOMAIN filtered_df :
                      row.AlignmentId = a => row.GeneAlternateContigs = others

\* C10: with remove_split_genes, 'Number of transcripts removed' is the number of
\* rows outside their gene's winning cluster, which are absent from the returned
\* table.
RemovedCount ==
  (pc = "split_done" /\ remove_split_genes) =>
     split_gene_metrics["Number of transcripts removed"] =
       Cardinality({x \in paralog_filtered_df :
                      /\ x.GeneId \in DOMAIN cluster_ids
                      /\ x.AlignmentId \notin cluster_ids[x.GeneId]
                      /\ x.AlignmentId \notin OutIds(x.GeneId)})

====
